---- MODULE Spec2Model ----
(***************************************************************************)
(* A model of rnnvis/state_processor.py: the hidden-state pipeline         *)
(* (fetch -> diff -> group -> aggregate / sample -> project -> serialize)  *)
(* and the pickle files under _cached/tmp that memoize it.                 *)
(*                                                                         *)
(* Python values are represented as follows.                               *)
(*   str            a TLA+ string; + and join are \o                       *)
(*   list           a sequence (1-based here, 0-based in the source)       *)
(*   None / value   <<>> / <<value>> (see None, Some)                      *)
(*   ndarray state  <<layer_1, ..., layer_L>>, each layer a sequence of    *)
(*                  unit values                                            *)
(*   float          an exact rational [num |-> n, den |-> d], d > 0        *)
(*   raise E        a result record whose status is the exception's name   *)
(***************************************************************************)
EXTENDS Integers, Sequences, FiniteSets, TLC

VARIABLES
    dbv,      \* which snapshot the evaluation database currently holds
    files,    \* the directory _cached/tmp: file name -> unpickled content
    hist,     \* history: one entry per completed run of a wrapped computation
    ncalls,   \* number of top-level calls made so far
    call,     \* the call in progress or last made
    ret       \* its result, or Pending

vars == <<dbv, files, hist, ncalls, call, ret>>

----------------------------------------------------------------------------
(* Bounds of the model.                                                    *)

MaxCalls == 2       \* top-level calls in one behaviour of Spec
MaxLoadCalls == 3   \* calls in one behaviour of SpecLoad
MaxStrengthCalls == 2 \* calls in one behaviour of SpecStrength
MaxRecs == 2        \* records in a directly enumerated state sequence
MaxWordId == 2      \* largest word id in a directly enumerated sequence
MaxVal == 1         \* largest unit value in a directly enumerated state
NumLayers == 2      \* layers of a directly enumerated state
NumUnits == 2       \* units per layer of a directly enumerated state
MaxBlocks == 2      \* entries of states_num
MaxNum == 3         \* largest entry of states_num
MaxSol == 5         \* points of a solution
MaxStats == 3       \* records handed to compute_stats
MaxDraw == 2        \* states of the random generator a call can start from

(* Constants of the program.                                               *)

Tier1 == 100
Tier2 == 500
Tier3 == 1000
Divisor == 50
LearningRate == 50
MaxIter == 1000

----------------------------------------------------------------------------
(* Python helpers.                                                         *)

None == <<>>
Some(x) == <<x>>

Pending == [status |-> "pending"]
Raise(e) == [status |-> e]
RaiseMsg(e, m) == [status |-> e, msg |-> m]

Min2(a, b) == IF a <= b THEN a ELSE b

\* The element of a one-element set. The({e(x) : x \in {v}}) is e(v), with v
\* evaluated once.
The(S) == CHOOSE x \in S : TRUE

\* seq[:n] for n >= 0
Take(seq, n) == SubSeq(seq, 1, Min2(n, Len(seq)))

\* The 1-based position that Python index i denotes in a list of length n;
\* 0 when i is out of range.
PyPos(n, i) ==
    IF 0 <= i /\ i < n THEN i + 1
    ELSE IF i < 0 /\ -i <= n THEN n + i + 1
    ELSE 0

Digit == <<"0", "1", "2", "3", "4", "5", "6", "7", "8", "9">>

RECURSIVE StrNat(_)
StrNat(n) ==
    IF n < 10 THEN Digit[n + 1]
    ELSE StrNat(n \div 10) \o Digit[(n % 10) + 1]

\* str(n) for an int n
Str(n) == IF n < 0 THEN "-" \o StrNat(-n) ELSE StrNat(n)

\* sep.join(parts)
RECURSIVE Join(_, _)
Join(sep, parts) ==
    IF Len(parts) = 0 THEN ""
    ELSE IF Len(parts) = 1 THEN parts[1]
    ELSE parts[1] \o sep \o Join(sep, Tail(parts))

RECURSIVE SumSeq(_)
SumSeq(s) == IF Len(s) = 0 THEN 0 ELSE s[1] + SumSeq(Tail(s))

\* a - b for two states of the same shape
Sub(a, b) == [l \in 1..Len(a) |-> [u \in 1..Len(a[l]) |-> a[l][u] - b[l][u]]]

\* All sequences over S of length lo..hi
SeqsOf(S, lo, hi) == UNION {[1..n -> S] : n \in lo..hi}

----------------------------------------------------------------------------
(* cal_diff, fetch_state_of_eval, fetch_states.                            *)

cal_diff(arrays) ==
    [i \in 1..(Len(arrays) - 1) |-> Sub(arrays[i + 1], arrays[i])]

\* One pass of the loop body of fetch_state_of_eval (lines 61-63).
FieldState(records, field, d) ==
    LET state == [k \in 1..Len(records) |-> records[k][field]]
    IN  IF d
        THEN IF Len(state) = 0
             THEN Raise("IndexError")
             ELSE [status |-> "ok", state |-> <<state[1]>> \o cal_diff(state)]
        ELSE [status |-> "ok", state |-> state]

RECURSIVE FieldLoop(_, _, _, _, _)
FieldLoop(records, field_name, diff, i, states) ==
    IF i > Len(field_name) THEN [status |-> "ok", states |-> states]
    ELSE IF i > Len(diff) THEN Raise("IndexError")
    ELSE The({ IF r.status # "ok" THEN r
               ELSE FieldLoop(records, field_name, diff, i + 1,
                              Append(states, r.state))
               : r \in {FieldState(records, field_name[i], diff[i])} })

\* field_name and diff are [isList |-> BOOLEAN, v |-> value].
fetch_state_of_eval(records, field_name, diff) ==
    LET word_ids == [k \in 1..Len(records) |-> records[k].word_id]
    IN  IF field_name.isList /\ ~diff.isList THEN Raise("AssertionError")
        ELSE LET names == IF field_name.isList THEN field_name.v
                          ELSE <<field_name.v>>
                 flags == IF field_name.isList THEN diff.v ELSE <<diff.v>>
             IN  The({
                 IF r.status # "ok" THEN r
                 ELSE [status |-> "ok",
                       word_ids |-> word_ids,
                       states |-> IF Len(r.states) = 1 THEN r.states[1]
                                  ELSE r.states]
                 : r \in {FieldLoop(records, names, flags, 1, <<>>)} })

RECURSIVE EvalLoop(_, _, _, _, _, _)
EvalLoop(evals, field_name, diff, e, word_ids, states) ==
    IF e > Len(evals)
    THEN [status |-> "ok", word_ids |-> word_ids, states |-> states]
    ELSE The({ IF r.status # "ok" THEN r
               ELSE EvalLoop(evals, field_name, diff, e + 1,
                             word_ids \o r.word_ids, states \o r.states)
               : r \in {fetch_state_of_eval(evals[e], field_name, diff)} })

\* evals is what query_evals returns: one record sequence per evaluation.
fetch_states(evals, field_name, diff) ==
    IF Len(evals) = 0 THEN Raise("LookupError")
    ELSE EvalLoop(evals, field_name, diff, 1, <<>>, <<>>)

----------------------------------------------------------------------------
(* sort_by_id.                                                             *)

RECURSIVE MaxSeq(_)
MaxSeq(s) ==
    IF Len(s) = 1 THEN s[1]
    ELSE LET m == MaxSeq(Tail(s)) IN IF s[1] >= m THEN s[1] ELSE m

RECURSIVE BucketLoop(_, _, _, _)
BucketLoop(word_ids, states, k, id_to_states) ==
    IF k > Len(word_ids) THEN id_to_states
    ELSE LET id == word_ids[k] + 1
             cur == IF id_to_states[id] = None THEN <<>>
                    ELSE id_to_states[id][1]
         IN  BucketLoop(word_ids, states, k + 1,
                 [id_to_states EXCEPT ![id] = Some(Append(cur, states[k]))])

\* Word ids are vocabulary indices, so they are >= 0.
sort_by_id(word_ids, states) ==
    IF Len(word_ids) = 0 THEN Raise("ValueError")
    ELSE IF Len(states) < Len(word_ids) THEN Raise("IndexError")
    ELSE LET max_id == MaxSeq(word_ids)
         IN  [status |-> "ok",
              id_to_states |->
                  BucketLoop(word_ids, states, 1, [i \in 1..(max_id + 1) |-> None])]

----------------------------------------------------------------------------
(* Exact rationals standing for numpy floats.                              *)

Abs(n) == IF n < 0 THEN -n ELSE n

RECURSIVE Gcd(_, _)
Gcd(a, b) == IF b = 0 THEN a ELSE Gcd(b, a % b)

\* n / d in lowest terms, d > 0
Rat(n, d) ==
    LET g == Gcd(Abs(n), d)
    IN  [num |-> n \div g, den |-> d \div g]

RatLess(a, b) == a.num * b.den < b.num * a.den

----------------------------------------------------------------------------
(* compute_stats.                                                          *)

\* np.percentile(column, q2 / 2): linear interpolation between the two
\* nearest ranks of the sorted column, as 200 times its value.
Percentile200(column, q2) ==
    LET a == SortSeq(column, LAMBDA x, y : x < y)
        numer == q2 * (Len(a) - 1)
        lo == numer \div 200
        r == numer % 200
    IN  IF r = 0 THEN 200 * a[lo + 1]
        ELSE 200 * a[lo + 1] + r * (a[lo + 2] - a[lo + 1])

\* np.argsort(mean), as 1-based positions; equal means keep their order.
ArgSort(mean) ==
    SortSeq([u \in 1..Len(mean) |-> u],
            LAMBDA x, y : RatLess(mean[x], mean[y])
                          \/ (mean[x] = mean[y] /\ x < y))

\* One pass of the loop body of compute_stats (lines 111-124). The field var
\* is the square of std.
LayerStats(states, layer, sort_by_mean, percent) ==
    LET n == Len(states)
        units == Len(states[1][layer])
        column(u) == [k \in 1..n |-> states[k][layer][u]]
        total(u) == SumSeq(column(u))
        squares(u) == SumSeq([k \in 1..n |-> column(u)[k] * column(u)[k]])
        mean == [u \in 1..units |-> Rat(total(u), n)]
        var == [u \in 1..units |->
                   Rat(n * squares(u) - total(u) * total(u), n * n)]
        error_l == [u \in 1..units |->
                       Rat(200 * total(u)
                               - n * Percentile200(column(u), 100 - percent),
                           200 * n)]
        error_u == [u \in 1..units |->
                       Rat(n * Percentile200(column(u), 100 + percent)
                               - 200 * total(u),
                           200 * n)]
        idx == ArgSort(mean)
        pick(x) == [u \in 1..units |-> x[idx[u]]]
    IN  IF sort_by_mean
        THEN [mean |-> pick(mean), var |-> pick(var), error_l |-> pick(error_l),
              error_u |-> pick(error_u), idx |-> Some(idx)]
        ELSE [mean |-> mean, var |-> var, error_l |-> error_l,
              error_u |-> error_u, idx |-> None]

compute_stats(states, sort_by_mean, percent) ==
    IF Len(states) = 0 THEN Raise("IndexError")
    ELSE LET layer_num == Len(states[1])
             per == [layer \in 1..layer_num |->
                        LayerStats(states, layer, sort_by_mean, percent)]
         IN  [status |-> "ok",
              means |-> [l \in 1..layer_num |-> per[l].mean],
              vars |-> [l \in 1..layer_num |-> per[l].var],
              errors_l |-> [l \in 1..layer_num |-> per[l].error_l],
              errors_u |-> [l \in 1..layer_num |-> per[l].error_u],
              indices |-> [l \in 1..layer_num |-> per[l].idx]]

----------------------------------------------------------------------------
(* cal_empirical_strength, with the strength_func of line 167:             *)
(* lambda state_mat: np.mean(state_mat, axis=0).                           *)

MeanAxis0(states) ==
    [l \in 1..Len(states[1]) |->
        [u \in 1..Len(states[1][l]) |->
            Rat(SumSeq([k \in 1..Len(states) |-> states[k][l][u]]),
                Len(states))]]

\* np.zeros(state_shape)
Zeros(shape) == [l \in 1..Len(shape) |-> [u \in 1..shape[l] |-> Rat(0, 1)]]

strenth_map(states, state_shape) ==
    IF states = None THEN Zeros(state_shape) ELSE MeanAxis0(states[1])

cal_empirical_strength(id_states) ==
    IF Len(id_states) = 0 THEN Raise("IndexError")
    ELSE IF id_states[1] = None THEN Raise("TypeError")
    ELSE LET first == id_states[1][1][1]
             state_shape == [l \in 1..Len(first) |-> Len(first[l])]
         IN  [status |-> "ok",
              strength_list |-> [i \in 1..Len(id_states) |->
                                    strenth_map(id_states[i], state_shape)]]

----------------------------------------------------------------------------
(* solution2json. dict2json is the JSON writer; the result modelled is the *)
(* list of points handed to it.                                            *)

RECURSIVE ExpandLayers(_, _)
ExpandLayers(states_num, i) ==
    IF i > Len(states_num) THEN <<>>
    ELSE [k \in 1..states_num[i] |-> i] \o ExpandLayers(states_num, i + 1)

\* State ids that keep counting across the blocks instead of restarting.
ExpandStateIdsRunning(states_num, i) ==
    [k \in 1..SumSeq(SubSeq(states_num, i, Len(states_num))) |-> k - 1]

RECURSIVE ExpandStateIds(_, _)
ExpandStateIds(states_num, i) ==
    IF i > Len(states_num) THEN <<>>
    ELSE [k \in 1..states_num[i] |-> k - 1] \o ExpandStateIds(states_num, i + 1)

\* labels is None or Some(list)
solution2json(solution, states_num, labels) ==
    LET labs == IF labels = None THEN [i \in 1..Len(solution) |-> 0]
                ELSE labels[1]
        layers == ExpandLayers(states_num, 1)
        state_ids == ExpandStateIds(states_num, 1)
    IN  IF Len(solution) > Len(layers) \/ Len(solution) > Len(labs)
        THEN Raise("IndexError")
        ELSE [status |-> "ok",
              points |-> [i \in 1..Len(solution) |->
                             [coords |-> solution[i], layer |-> layers[i],
                              state_id |-> state_ids[i], label |-> labs[i]]]]

----------------------------------------------------------------------------
(* Cache file names.                                                       *)

_tmp_dir == "_cached/tmp"

\* rnnvis.utils.io_utils.get_path: the path of a file of a directory
get_path(dir, name) == dir \o "/" \o name

\* A layer argument: None, an int l (held as <<l>>) or a list of ints.
NoLayer == [kind |-> "none", v |-> <<>>]
IntLayer(l) == [kind |-> "int", v |-> <<l>>]
ListLayer(ls) == [kind |-> "list", v |-> ls]

\* if not isinstance(layer, list): layer = [layer]
AsList(layer) == layer.v

\* int(x) of a float x >= 0 given as a rational
IntOf(x) == x.num \div x.den

\* Line 158.
TopTier(top_k) ==
    IF top_k <= Tier1 THEN Tier1 ELSE IF top_k <= Tier2 THEN Tier2 ELSE Tier3

\* Lines 159-160.
StrengthFile(data_name, model_name, state_name, top) ==
    get_path(_tmp_dir,
             Join("-", <<data_name, model_name, state_name, Str(top)>>) \o ".pkl")

\* Lines 196-199.
WordFile(data_name, model_name) ==
    get_path(_tmp_dir, data_name \o "-" \o model_name \o "-words.pkl")

StatesFile(data_name, model_name, state_name, diff) ==
    get_path(_tmp_dir,
             data_name \o "-" \o model_name \o "-" \o state_name
                 \o (IF diff THEN "-diff" ELSE "") \o ".pkl")

\* Lines 226-232. dim is None or Some(d).
SignatureFile(data_name, model_name, state_name, layer, sample_size, dim) ==
    LET layer_str == IF layer.kind = "none" THEN "all"
                     ELSE Join("", [i \in 1..Len(AsList(layer)) |->
                                       Str(AsList(layer)[i])])
    IN  get_path(_tmp_dir,
                 Join("-", <<data_name, model_name, state_name, layer_str,
                             Str(sample_size),
                             IF dim # None THEN Str(dim[1])
                             ELSE Str(sample_size)>>) \o ".pkl")

\* Lines 275-277. layer is an int here.
TsneFile(data_name, model_name, state_name, layer, dim, perplexity) ==
    get_path(_tmp_dir,
             Join("-", <<data_name, model_name, state_name, "tsne", Str(layer),
                         IF dim = None THEN "None" ELSE Str(dim[1]),
                         Str(IntOf(perplexity))>>) \o ".pkl")

----------------------------------------------------------------------------
(* The evaluation database: the records of the evaluations of one          *)
(* (data_name, model_name) pair, as a list of snapshots it can hold.       *)

Rec(w, c1, c2, h1, h2) ==
    [word_id |-> w, state_c |-> <<<<c1>>, <<c2>>>>, state_h |-> <<<<h1>>, <<h2>>>>]

Snapshots == <<
    \* one evaluation of three timesteps
    << <<Rec(0, 1, 2, 3, 4), Rec(1, 2, 2, 5, 1), Rec(0, 4, 0, 2, 2)>> >>,
    \* a second evaluation has been recorded
    << <<Rec(0, 1, 2, 3, 4), Rec(1, 2, 2, 5, 1), Rec(0, 4, 0, 2, 2)>>,
       <<Rec(2, 3, 1, 0, 6), Rec(1, 1, 1, 4, 4)>> >>,
    \* word id 0 does not occur
    << <<Rec(1, 2, 0, 1, 1), Rec(1, 4, 2, 3, 5), Rec(2, 0, 6, 2, 2)>> >>,
    \* no evaluation at all
    << >>,
    \* an evaluation without records
    << << >> >>
>>

Database == Snapshots[dbv]

----------------------------------------------------------------------------
(* The cached operations. Each returns an outcome:                         *)
(*   r        the value returned, or the exception raised                  *)
(*   dir      the directory afterwards                                     *)
(*   probed   the files whose existence was tested or that were read       *)
(*   written  the files written                                            *)
(*   queries  the database queries issued                                  *)
(*   runs     the wrapped computations completed, in order                 *)

Outcome(r, dir, probed, written, queries, runs) ==
    [r |-> r, dir |-> dir, probed |-> probed, written |-> written,
     queries |-> queries, runs |-> runs]

EmptyDir == <<>>

Exists(dir, f) == f \in DOMAIN dir

\* pickle.dump(value, open(f, 'wb'))
Dump(dir, f, value) ==
    [g \in DOMAIN dir \cup {f} |-> IF g = f THEN value ELSE dir[g]]

load_words_and_state(dir, evals, data_name, model_name, state_name, diff) ==
    LET word_file == WordFile(data_name, model_name)
        states_file == StatesFile(data_name, model_name, state_name, diff)
    IN  IF Exists(dir, word_file) /\ Exists(dir, states_file)
        THEN Outcome([status |-> "ok", words |-> dir[word_file],
                      states |-> dir[states_file]],
                     dir, {word_file, states_file}, {}, {}, <<>>)
        ELSE LET probed == IF Exists(dir, word_file)
                           THEN {word_file, states_file} ELSE {word_file}
                 queries == IF Len(evals) = 0 THEN {"query_evals"}
                            ELSE {"query_evals", "query_evaluation_records"}
             IN  The({
                 IF f.status # "ok"
                 THEN Outcome(f, dir, probed, {}, queries, <<>>)
                 ELSE Outcome([status |-> "ok", words |-> f.word_ids,
                               states |-> f.states],
                              Dump(Dump(dir, word_file, f.word_ids),
                                   states_file, f.states),
                              probed, {word_file, states_file}, queries, <<>>)
                 : f \in {fetch_states(evals,
                                       [isList |-> FALSE, v |-> state_name],
                                       [isList |-> FALSE, v |-> diff])} })

\* The return statement of get_empirical_strength (line 171).
SliceStrengths(id_strengths, layer, top_k) ==
    IF top_k > Len(id_strengths) THEN Raise("IndexError")
    ELSE IF top_k >= 1
            /\ \E j \in 1..Len(layer) : PyPos(Len(id_strengths[1]), layer[j]) = 0
         THEN Raise("IndexError")
    ELSE [status |-> "ok",
          val |-> [i \in 1..top_k |->
                      [j \in 1..Len(layer) |->
                          id_strengths[i][PyPos(Len(id_strengths[i]), layer[j])]]]]

\* A range test that is late by one: it lets top_k = 1001 through.
TopKTooLargeLate(top_k) == top_k > Tier3 + 1

\* Line 156.
TopKTooLarge(top_k) == top_k > Tier3

get_empirical_strength(dir, evals, data_name, model_name, state_name, layer, top_k) ==
    LET layers == AsList(layer)
        top == TopTier(top_k)
        tmp_file == StrengthFile(data_name, model_name, state_name, top)
    IN  IF TopKTooLarge(top_k)
        THEN Outcome(RaiseMsg("ValueError", "selected words range too large, only support top 1000 frequent words!"),
                     dir, {}, {}, {}, <<>>)
        ELSE IF Exists(dir, tmp_file)
        THEN Outcome(SliceStrengths(dir[tmp_file], layers, top_k),
                     dir, {tmp_file}, {}, {}, <<>>)
        ELSE The({
             LET probed == {tmp_file} \cup lw.probed
                 fail(e) == Outcome(e, lw.dir, probed, lw.written, lw.queries, <<>>)
             IN  IF lw.r.status # "ok" THEN fail(lw.r)
                 ELSE The({
                 IF g.status # "ok" THEN fail(g)
                 ELSE The({
                 IF c.status # "ok" THEN fail(c)
                 ELSE Outcome(SliceStrengths(c.strength_list, layers, top_k),
                              Dump(lw.dir, tmp_file, c.strength_list),
                              probed, lw.written \cup {tmp_file}, lw.queries,
                              <<[op |-> "get_empirical_strength",
                                 args |-> <<data_name, model_name, state_name, top>>,
                                 val |-> c.strength_list]>>)
                 : c \in {cal_empirical_strength(Take(g.id_to_states, top))} })
                 : g \in {sort_by_id(lw.r.words, lw.r.states)} })
             : lw \in {load_words_and_state(dir, evals, data_name, model_name,
                                            state_name, TRUE)} })

\* The sampled signature (lines 240-250): an uninterpreted term of what it
\* is computed from. rng is the state of numpy's random generator.
Signature(states, layers, sample_size, dim, rng) ==
    LET sample == [fn |-> "sample", states |-> states, layers |-> layers,
                   sample_size |-> sample_size, rng |-> rng]
    IN  IF dim # None THEN [fn |-> "pca", x |-> sample, dim |-> dim[1]]
        ELSE sample

\* The layer argument as the computation uses it.
SignatureArgs(data_name, model_name, state_name, layer, sample_size, dim) ==
    <<data_name, model_name, state_name,
      IF layer.kind = "none" THEN None ELSE Some(AsList(layer)),
      sample_size, dim>>

get_state_signature(dir, evals, data_name, model_name, state_name, layer, sample_size, dim, rng) ==
    LET file_name == SignatureFile(data_name, model_name, state_name, layer,
                                   sample_size, dim)
    IN  IF Exists(dir, file_name)
        THEN Outcome([status |-> "ok", sample |-> dir[file_name]],
                     dir, {file_name}, {}, {}, <<>>)
        ELSE The({
             LET probed == {file_name} \cup lw.probed
                 fail(e) == Outcome(e, lw.dir, probed, lw.written, lw.queries, <<>>)
             IN  IF lw.r.status # "ok" THEN fail(lw.r)
                 ELSE IF Len(lw.r.states) = 0 THEN fail(Raise("IndexError"))
                 ELSE LET layers == IF layer.kind = "none"
                                    THEN [l \in 1..Len(lw.r.states[1]) |-> l - 1]
                                    ELSE AsList(layer)
                      IN  IF \E j \in 1..Len(layers) :
                                 PyPos(Len(lw.r.states[1]), layers[j]) = 0
                          THEN fail(Raise("IndexError"))
                 ELSE LET sample == Signature(lw.r.states, layers, sample_size,
                                              dim, rng)
                      IN  Outcome([status |-> "ok", sample |-> sample],
                                  Dump(lw.dir, file_name, sample),
                                  probed, lw.written \cup {file_name}, lw.queries,
                                  <<[op |-> "get_state_signature",
                                     args |-> SignatureArgs(data_name, model_name,
                                                  state_name, layer, sample_size, dim),
                                     val |-> sample]>>)
             : lw \in {load_words_and_state(dir, evals, data_name, model_name,
                                            state_name, FALSE)} })

\* The solution of the t-SNE solver: an uninterpreted term of its inputs.
tsne_project(data, perplexity, init_dim, lr, max_iter, rng) ==
    [fn |-> "tsne", data |-> data, perplexity |-> perplexity,
     init_dim |-> init_dim, lr |-> lr, max_iter |-> max_iter, rng |-> rng]

get_tsne_projection(dir, evals, data_name, model_name, state_name, layer, sample_size, dim, perplexity, rng) ==
    IF layer.kind # "int"
    THEN Outcome(Raise("AssertionError"), dir, {}, {}, {}, <<>>)
    ELSE
    LET tmp_file == TsneFile(data_name, model_name, state_name, layer.v[1], dim,
                             perplexity)
    IN  IF Exists(dir, tmp_file)
        THEN Outcome([status |-> "ok", tsne_solution |-> dir[tmp_file]],
                     dir, {tmp_file}, {}, {}, <<>>)
        ELSE The({
             LET probed == {tmp_file} \cup sg.probed
             IN  IF sg.r.status # "ok"
                 THEN Outcome(sg.r, sg.dir, probed, sg.written, sg.queries, sg.runs)
                 ELSE LET sample == [fn |-> "div", x |-> sg.r.sample, by |-> Divisor]
                          tsne_solution == tsne_project(sample, perplexity, dim,
                                                        LearningRate, MaxIter, rng)
                      IN  Outcome([status |-> "ok", tsne_solution |-> tsne_solution],
                                  Dump(sg.dir, tmp_file, tsne_solution),
                                  probed, sg.written \cup {tmp_file}, sg.queries,
                                  sg.runs \o
                                  <<[op |-> "get_tsne_projection",
                                     args |-> <<data_name, model_name, state_name,
                                                layer.v[1], sample_size, dim, perplexity>>,
                                     val |-> tsne_solution]>>)
             : sg \in {get_state_signature(dir, evals, data_name, model_name,
                                           state_name, layer, sample_size, dim, rng)} })

----------------------------------------------------------------------------
(* The program as a state machine: a sequence of top-level calls against   *)
(* one cache directory, while the database may change between calls.       *)

\* Lines 330-331.
DataName == "ptb"
ModelName == "GRU-PTB"

StateNames == {"state_c", "state_h"}
StrengthLayers == {IntLayer(-1), IntLayer(0), ListLayer(<<0, 1>>)}
TopKs == {1, 2, 3, Tier1, Tier1 + 1, Tier2, Tier3, Tier3 + 1}
\* One top_k per tier, and one beyond the last.
TierTopKs == {1, Tier1 + 1, Tier2 + 1, Tier3 + 1}
SignatureLayers == {NoLayer, IntLayer(1), ListLayer(<<0, 1>>)}
TsneLayers == {IntLayer(-1), IntLayer(0), ListLayer(<<0>>)}
SampleSizes == {50, 5000}
Dims == {None, Some(50)}
Perplexities == {Rat(40, 1), Rat(81, 2)}

NoCall == [op |-> "none"]

Init ==
    /\ dbv = 1
    /\ files = EmptyDir
    /\ hist = <<>>
    /\ ncalls = 0
    /\ call = NoCall
    /\ ret = Pending

\* A call c with outcome o is made, unless max calls have been made.
Commit(c, o, max) ==
    /\ ncalls < max
    /\ ncalls' = ncalls + 1
    /\ call' = c
    /\ \E out \in {o} :
          /\ ret' = [r |-> out.r, probed |-> out.probed, written |-> out.written,
                     queries |-> out.queries, runs |-> out.runs]
          /\ files' = out.dir
          /\ hist' = hist \o out.runs
    /\ UNCHANGED dbv

LoadWordsAndState(max) ==
    \E state_name \in StateNames, diff \in BOOLEAN :
        Commit([op |-> "load_words_and_state", state_name |-> state_name,
                diff |-> diff],
               load_words_and_state(files, Database, DataName, ModelName,
                                    state_name, diff),
               max)

GetEmpiricalStrength(max, top_ks) ==
    \E state_name \in StateNames, layer \in StrengthLayers, top_k \in top_ks :
        Commit([op |-> "get_empirical_strength", state_name |-> state_name,
                layer |-> layer, top_k |-> top_k],
               get_empirical_strength(files, Database, DataName, ModelName,
                                      state_name, layer, top_k),
               max)

GetStateSignature(max) ==
    \E state_name \in StateNames, layer \in SignatureLayers,
       sample_size \in SampleSizes, dim \in Dims, rng \in 1..MaxDraw :
        Commit([op |-> "get_state_signature", state_name |-> state_name,
                layer |-> layer, sample_size |-> sample_size, dim |-> dim],
               get_state_signature(files, Database, DataName, ModelName,
                                   state_name, layer, sample_size, dim, rng),
               max)

GetTsneProjection(max) ==
    \E state_name \in StateNames, layer \in TsneLayers,
       sample_size \in SampleSizes, dim \in Dims,
       perplexity \in Perplexities, rng \in 1..MaxDraw :
        Commit([op |-> "get_tsne_projection", state_name |-> state_name,
                layer |-> layer, sample_size |-> sample_size, dim |-> dim,
                perplexity |-> perplexity],
               get_tsne_projection(files, Database, DataName, ModelName,
                                   state_name, layer, sample_size, dim,
                                   perplexity, rng),
               max)

\* Evaluations are recorded or removed by other programs: the database
\* moves to another snapshot of snaps.
ChangeDb(snaps) ==
    /\ dbv' \in snaps \ {dbv}
    /\ UNCHANGED <<files, hist, ncalls, call, ret>>

\* Every operation.
Next ==
    \/ LoadWordsAndState(MaxCalls)
    \/ GetEmpiricalStrength(MaxCalls, TierTopKs)
    \/ GetStateSignature(MaxCalls)
    \/ GetTsneProjection(MaxCalls)
    \/ ChangeDb(DOMAIN Snapshots)

Spec == Init /\ [][Next]_vars

\* Calls of load_words_and_state alone.
NextLoad == LoadWordsAndState(MaxLoadCalls) \/ ChangeDb(DOMAIN Snapshots)

SpecLoad == Init /\ [][NextLoad]_vars

\* Calls of get_empirical_strength alone.
NextStrength ==
    GetEmpiricalStrength(MaxStrengthCalls, TopKs) \/ ChangeDb(DOMAIN Snapshots)

SpecStrength == Init /\ [][NextStrength]_vars

----------------------------------------------------------------------------
(* The functions applied to directly enumerated inputs: Init draws the     *)
(* arguments, the action applies the function.                             *)

Idle == /\ dbv = 1
        /\ files = EmptyDir
        /\ hist = <<>>
        /\ ncalls = 0
        /\ ret = Pending

Return(r) == /\ ret = Pending
             /\ ret' = r
             /\ UNCHANGED <<dbv, files, hist, ncalls, call>>

StatesOf(layers, units) == [1..layers -> [1..units -> 0..MaxVal]]

Fields == {"state_c", "state_h"}

\* --- fetch_state_of_eval

DiffRecords ==
    [word_id : 0..MaxWordId,
     state_c : StatesOf(1, NumUnits),
     state_h : StatesOf(1, NumUnits)]

FieldArgs ==
    {<<[isList |-> FALSE, v |-> f], [isList |-> FALSE, v |-> d]>> :
        f \in Fields, d \in BOOLEAN}
    \cup
    {<<[isList |-> TRUE, v |-> fs], [isList |-> FALSE, v |-> d]>> :
        fs \in SeqsOf(Fields, 1, 2), d \in BOOLEAN}
    \cup
    UNION {{<<[isList |-> TRUE, v |-> fs], [isList |-> TRUE, v |-> ds]>> :
               ds \in [1..Len(fs) -> BOOLEAN]} : fs \in SeqsOf(Fields, 1, 2)}

InitDiff ==
    /\ Idle
    /\ call \in {[op |-> "fetch_state_of_eval", records |-> r,
                  field_name |-> a[1], diff |-> a[2]] :
                     r \in SeqsOf(DiffRecords, 0, MaxRecs), a \in FieldArgs}

FetchStateOfEval ==
    /\ call.op = "fetch_state_of_eval"
    /\ Return(fetch_state_of_eval(call.records, call.field_name, call.diff))

SpecDiff == InitDiff /\ [][FetchStateOfEval]_vars

\* --- sort_by_id

SortPairs == [word_id : 0..MaxWordId, state : StatesOf(1, NumUnits)]

InitSort ==
    /\ Idle
    /\ call \in {[op |-> "sort_by_id", pairs |-> ps] :
                     ps \in SeqsOf(SortPairs, 0, MaxRecs + 1)}

SortById ==
    /\ call.op = "sort_by_id"
    /\ Return(sort_by_id([k \in 1..Len(call.pairs) |-> call.pairs[k].word_id],
                         [k \in 1..Len(call.pairs) |-> call.pairs[k].state]))

SpecSort == InitSort /\ [][SortById]_vars

\* --- cal_empirical_strength

Buckets ==
    {None} \cup {Some(b) : b \in SeqsOf(StatesOf(NumLayers, 1), 1, MaxRecs)}

InitStrengthMap ==
    /\ Idle
    /\ call \in {[op |-> "cal_empirical_strength", id_states |-> g] :
                     g \in {x \in SeqsOf(Buckets, 1, MaxWordId + 1) :
                               \E i \in 1..Len(x) : x[i] # None}}

CalEmpiricalStrength ==
    /\ call.op = "cal_empirical_strength"
    /\ Return(cal_empirical_strength(call.id_states))

SpecStrengthMap == InitStrengthMap /\ [][CalEmpiricalStrength]_vars

\* --- solution2json

\* A solution of n distinct points.
SolutionOf(n) == [p \in 1..n |-> <<p, 0 - p>>]

InitJson ==
    /\ Idle
    /\ call \in UNION {{[op |-> "solution2json", solution |-> SolutionOf(n),
                         states_num |-> sn, labels |-> lb] :
                           sn \in SeqsOf(0..MaxNum, 0, MaxBlocks),
                           lb \in {None} \cup {Some(l) : l \in [1..n -> 0..1]}} :
                       n \in 0..MaxSol}

Solution2Json ==
    /\ call.op = "solution2json"
    /\ Return(solution2json(call.solution, call.states_num, call.labels))

SpecJson == InitJson /\ [][Solution2Json]_vars

\* --- compute_stats

Percents == {10, 50, 100}

InitStats ==
    /\ Idle
    /\ call \in {[op |-> "compute_stats", states |-> st, sort_by_mean |-> sb,
                  percent |-> pc] :
                     st \in SeqsOf(StatesOf(NumLayers, NumUnits), 1, MaxStats),
                     sb \in BOOLEAN, pc \in Percents}

ComputeStats ==
    /\ call.op = "compute_stats"
    /\ Return(compute_stats(call.states, call.sort_by_mean, call.percent))

SpecStats == InitStats /\ [][ComputeStats]_vars

----------------------------------------------------------------------------
(* Properties of the functions.                                            *)

Done(op) == call.op = op /\ ret # Pending

\* --- Differencer

\* The fields requested by the call, their flags, and the output of field i.
DiffNames == IF call.field_name.isList THEN call.field_name.v
             ELSE <<call.field_name.v>>
DiffFlags == IF call.diff.isList THEN call.diff.v ELSE <<call.diff.v>>
DiffInput(i) == [k \in 1..Len(call.records) |-> call.records[k][DiffNames[i]]]
DiffOutput(i) == IF Len(DiffNames) = 1 THEN ret.states ELSE ret.states[i]

\* A field list comes with a flag list of the same length.
DiffWellFormed ==
    /\ call.field_name.isList = call.diff.isList
    /\ Len(DiffNames) = Len(DiffFlags)

KeepFirstThenDiff(inp, out) ==
    /\ Len(out) = Len(inp)
    /\ Len(inp) >= 1 => out[1] = inp[1]
    /\ \A k \in 2..Len(inp) : out[k] = Sub(inp[k], inp[k - 1])

DiffContract ==
    /\ ret.status = "ok"
    /\ ret.word_ids = [k \in 1..Len(call.records) |-> call.records[k].word_id]
    /\ \A i \in 1..Len(DiffNames) :
          IF DiffFlags[i] THEN KeepFirstThenDiff(DiffInput(i), DiffOutput(i))
          ELSE DiffOutput(i) = DiffInput(i)

\* C6: for any state sequence of length n fetched by fetch_state_of_eval,
\* a field whose diff flag is set comes back with length n, its first
\* element kept and every later element the difference from its
\* predecessor; a field whose flag is unset comes back unchanged; each
\* requested field is transformed on its own.
C6_DiffAnyLength ==
    (Done("fetch_state_of_eval") /\ DiffWellFormed) => DiffContract

\* C6, the part that holds: the same for every sequence of length n >= 1.
C6_DiffNonEmpty ==
    (Done("fetch_state_of_eval") /\ DiffWellFormed /\ Len(call.records) >= 1)
        => DiffContract

C6_DiffNonEmptyWitness ==
    /\ Done("fetch_state_of_eval")
    /\ call.field_name.isList /\ call.diff.isList
    /\ Len(call.records) = 2
    /\ call.diff.v = <<TRUE, FALSE>>
    /\ ret.status = "ok"
    /\ ret.states[1][2] # call.records[2][call.field_name.v[1]]

\* --- Grouper

\* The states recorded at word id w, in input order.
RECURSIVE StatesAt(_, _)
StatesAt(pairs, w) ==
    IF Len(pairs) = 0 THEN <<>>
    ELSE (IF pairs[1].word_id = w THEN <<pairs[1].state>> ELSE <<>>)
             \o StatesAt(Tail(pairs), w)

BucketSize(b) == IF b = None THEN 0 ELSE Len(b[1])

SortContract ==
    /\ ret.status = "ok"
    /\ SumSeq([i \in 1..Len(ret.id_to_states) |->
                  BucketSize(ret.id_to_states[i])]) = Len(call.pairs)
    /\ \A k \in 1..Len(call.pairs) :
          call.pairs[k].word_id + 1 \in 1..Len(ret.id_to_states)
    /\ \A i \in 1..Len(ret.id_to_states) :
          ret.id_to_states[i] =
              IF StatesAt(call.pairs, i - 1) = <<>> THEN None
              ELSE Some(StatesAt(call.pairs, i - 1))

\* C7: for any input sequence of (word_id, state) pairs, sort_by_id puts
\* every record in exactly one bucket, the one indexed by its word id, so
\* the bucket sizes add up to the input length, and ids absent from the
\* input map to None; it does not raise.
C7_GroupAnyInput == Done("sort_by_id") => SortContract

\* C7, the part that holds: the same for every non-empty input sequence.
C7_GroupNonEmpty ==
    (Done("sort_by_id") /\ Len(call.pairs) >= 1) => SortContract

C7_GroupNonEmptyWitness ==
    /\ Done("sort_by_id")
    /\ Len(call.pairs) = 3
    /\ call.pairs[1].word_id = 2 /\ call.pairs[2].word_id = 0
    /\ call.pairs[3].word_id = 2
    /\ ret.status = "ok"
    /\ ret.id_to_states[2] = None
    /\ BucketSize(ret.id_to_states[3]) = 2

\* --- Strength Aggregator

\* Some state record of the grouped states.
SomeState(id_states) ==
    LET i == CHOOSE j \in 1..Len(id_states) : id_states[j] # None
    IN  id_states[i][1][1]

ZeroLike(x, state) ==
    /\ Len(x) = Len(state)
    /\ \A l \in 1..Len(state) :
          /\ Len(x[l]) = Len(state[l])
          /\ \A u \in 1..Len(state[l]) : x[l][u].num = 0

\* C5: for any grouped-states list, cal_empirical_strength returns a list
\* of the same length in which every id whose bucket is None has a
\* zero-filled array shaped like one state record; it never raises because
\* of absent buckets, id 0 included.
C5_AbsentBucketsAreZero ==
    Done("cal_empirical_strength") =>
        /\ ret.status = "ok"
        /\ Len(ret.strength_list) = Len(call.id_states)
        /\ \A i \in 1..Len(call.id_states) :
              call.id_states[i] = None =>
                  ZeroLike(ret.strength_list[i], SomeState(call.id_states))

\* --- Serializer

Prefix(states_num, j) == SumSeq(SubSeq(states_num, 1, j))

\* The 1-based block of states_num that holds the 0-based position p0.
BlockOf(states_num, p0) ==
    CHOOSE j \in 1..Len(states_num) :
        Prefix(states_num, j - 1) <= p0 /\ p0 < Prefix(states_num, j)

C9_BandsNonNegative ==
    (Done("compute_stats") /\ Len(call.states) >= 1) =>
        /\ ret.status = "ok"
        /\ \A l \in 1..Len(ret.errors_l) :
              \A u \in 1..Len(ret.errors_l[l]) :
                  /\ ret.errors_l[l][u].num >= 0
                  /\ ret.errors_u[l][u].num >= 0

----------------------------------------------------------------------------
(* The cache file names of two argument tuples of one cached operation.    *)

DataNames == {"ptb", "ptb-GRU"}
ModelNames == {"PTB", "GRU-PTB"}

\* get_empirical_strength computes for (data, model, state field, tier): the
\* layer and top_k only select from the stored tier.
StrengthKeys ==
    [data_name : DataNames, model_name : ModelNames, state_name : StateNames,
     top : {Tier1, Tier2, Tier3}]

SignatureKeys ==
    [data_name : DataNames, model_name : ModelNames, state_name : StateNames,
     layer : {NoLayer, ListLayer(<<0>>), ListLayer(<<1>>), ListLayer(<<0, 1>>)},
     sample_size : SampleSizes, dim : Dims]

TsneKeys ==
    [data_name : DataNames, model_name : ModelNames, state_name : StateNames,
     layer : {IntLayer(-1), IntLayer(0), IntLayer(1)},
     sample_size : SampleSizes, dim : Dims, perplexity : Perplexities]

\* The cache file of argument tuple k of operation op.
CacheFile(op, k) ==
    CASE op = "get_empirical_strength" ->
             StrengthFile(k.data_name, k.model_name, k.state_name, k.top)
      [] op = "get_state_signature" ->
             SignatureFile(k.data_name, k.model_name, k.state_name, k.layer,
                           k.sample_size, k.dim)
      [] op = "get_tsne_projection" ->
             TsneFile(k.data_name, k.model_name, k.state_name, k.layer.v[1],
                      k.dim, k.perplexity)

KeyPairs(op, keys) ==
    {[op |-> "cache_file", of |-> op, a |-> a, b |-> b] : a \in keys, b \in keys}

InitKeys ==
    /\ Idle
    /\ call \in KeyPairs("get_empirical_strength", StrengthKeys)
                \cup KeyPairs("get_state_signature", SignatureKeys)
                \cup KeyPairs("get_tsne_projection", TsneKeys)

CacheFiles ==
    /\ call.op = "cache_file"
    /\ Return([status |-> "ok",
               a |-> CacheFile(call.of, call.a),
               b |-> CacheFile(call.of, call.b)])

SpecKeys == InitKeys /\ [][CacheFiles]_vars

\* C1: for each cached operation, two calls whose parameter tuples differ
\* in any parameter (dataset, model, state field, layer selector, sample
\* size, target dimensionality, perplexity) resolve to distinct cache file
\* names.
C1_DistinctTuplesDistinctFiles ==
    (Done("cache_file") /\ call.a # call.b) => ret.a # ret.b

----------------------------------------------------------------------------
(* Properties of the cached operations.                                    *)

CachedOps ==
    {"get_empirical_strength", "get_state_signature", "get_tsne_projection"}

\* The argument tuple the wrapped computation of the last call runs for.
CallArgs ==
    CASE call.op = "get_empirical_strength" ->
             <<DataName, ModelName, call.state_name, TopTier(call.top_k)>>
      [] call.op = "get_state_signature" ->
             SignatureArgs(DataName, ModelName, call.state_name, call.layer,
                           call.sample_size, call.dim)
      [] call.op = "get_tsne_projection" ->
             <<DataName, ModelName, call.state_name, call.layer.v[1],
               call.sample_size, call.dim, call.perplexity>>

\* The completed runs of the last call's computation for its arguments, as
\* positions of hist.
RunsOfCall ==
    {i \in 1..Len(hist) : hist[i].op = call.op /\ hist[i].args = CallArgs}

\* What the last call returns when the stored payload is v.
ReturnOf(v) ==
    IF call.op = "get_empirical_strength"
    THEN SliceStrengths(v, AsList(call.layer), call.top_k)
    ELSE IF call.op = "get_state_signature"
    THEN [status |-> "ok", sample |-> v]
    ELSE [status |-> "ok", tsne_solution |-> v]

\* The last call ran its own computation.
RanItself ==
    \E i \in 1..Len(ret.runs) :
        ret.runs[i].op = call.op /\ ret.runs[i].args = CallArgs

ComputedOnce ==
    /\ Cardinality(RunsOfCall) = 1
    /\ \A i \in RunsOfCall : ret.r = ReturnOf(hist[i].val)
    /\ ~RanItself => ret.written = {}

\* C2: as long as no cache file is removed, the wrapped computation of a
\* cached operation runs exactly once for a given parameter tuple, on the
\* first call, and every later call with the same parameters returns the
\* payload stored by that first call, without running the computation and
\* without writing the cache file again.
C2_ComputedOncePerTuple ==
    (call.op \in CachedOps /\ ret.r.status = "ok") => ComputedOnce

\* The cache file of a run recorded in hist.
RunFile(h) ==
    CASE h.op = "get_empirical_strength" ->
             StrengthFile(h.args[1], h.args[2], h.args[3], h.args[4])
      [] h.op = "get_state_signature" ->
             SignatureFile(h.args[1], h.args[2], h.args[3],
                           IF h.args[4] = None THEN NoLayer
                           ELSE ListLayer(h.args[4][1]),
                           h.args[5], h.args[6])
      [] h.op = "get_tsne_projection" ->
             TsneFile(h.args[1], h.args[2], h.args[3], h.args[4], h.args[6],
                      h.args[7])

\* No earlier run of the last call's operation for other arguments wrote
\* the file the last call uses.
NoForeignFile ==
    \A i \in 1..Len(hist) :
        (hist[i].op = call.op /\ hist[i].args # CallArgs) =>
            RunFile(hist[i]) \notin ret.probed

\* C2, the part that holds: the same, for calls whose cache file was not
\* written for another parameter tuple.
C2_ComputedOnceUnlessShared ==
    (call.op \in CachedOps /\ ret.r.status = "ok" /\ NoForeignFile)
        => ComputedOnce

C2_LaterCallWitness ==
    /\ call.op = "get_tsne_projection"
    /\ ret.r.status = "ok"
    /\ NoForeignFile
    /\ ~RanItself
    /\ ret.written = {}

\* --- get_empirical_strength

StrengthCall == call.op = "get_empirical_strength"

\* What the tier file holds, restricted to the requested layers.
TierEntry(i) ==
    LET e == files[StrengthFile(DataName, ModelName, call.state_name,
                                TopTier(call.top_k))][i]
    IN  [j \in 1..Len(AsList(call.layer)) |->
            e[PyPos(Len(e), AsList(call.layer)[j])]]

\* C3: for every top_k in 1..1000, get_empirical_strength returns exactly
\* top_k entries, the first top_k entries of the tier that is the smallest
\* of 100, 500, 1000 not below top_k, whether that tier was just computed
\* or read from the cache.
C3_TopKEntriesOfTier ==
    (StrengthCall /\ call.top_k \in 1..Tier3 /\ ret.r.status # "LookupError") =>
        /\ ret.r.status = "ok"
        /\ Len(ret.r.val) = call.top_k
        /\ TopTier(call.top_k) \in {Tier1, Tier2, Tier3}
        /\ TopTier(call.top_k) >= call.top_k
        /\ \A t \in {Tier1, Tier2, Tier3} :
              t >= call.top_k => TopTier(call.top_k) <= t
        /\ \A i \in 1..call.top_k : ret.r.val[i] = TierEntry(i)

RangeError ==
    RaiseMsg("ValueError", "selected words range too large, only support top 1000 frequent words!")

\* C4: a call of get_empirical_strength with top_k > 1000 fails with the
\* range ValueError before any cache file is tested, read or written and
\* before any database query is issued, and leaves the cache directory
\* as it was; a call with top_k = 1000 is not rejected by this check.
C4_RangeCheckFirst ==
    [][(ncalls' = ncalls + 1 /\ call'.op = "get_empirical_strength") =>
          /\ call'.top_k > Tier3 =>
                /\ ret'.r = RangeError
                /\ ret'.probed = {} /\ ret'.written = {} /\ ret'.queries = {}
                /\ files' = files /\ hist' = hist
          /\ call'.top_k = Tier3 =>
                /\ ret'.r # RangeError
                /\ ret'.probed # {}]_vars

C4_RangeCheckWitness ==
    /\ StrengthCall
    /\ call.top_k = Tier3 + 1
    /\ ret.r = RangeError
    /\ files # EmptyDir
    /\ dbv # 4

\* --- load_words_and_state

\* Some snapshot of the database yields exactly these words and states.
FromOneFetch(words, states, state_name, diff) ==
    \E v \in 1..Len(Snapshots) :
        LET f == fetch_states(Snapshots[v], [isList |-> FALSE, v |-> state_name],
                              [isList |-> FALSE, v |-> diff])
        IN  f.status = "ok" /\ f.word_ids = words /\ f.states = states

\* C10: in any sequence of load_words_and_state calls for one (data_name,
\* model_name) pair, with the database changing between calls, the words
\* and the states a call returns come from the same database fetch: they
\* have equal length and words[k] is the word of states[k].
C10_WordsMatchStates ==
    (call.op = "load_words_and_state" /\ ret.r.status = "ok") =>
        /\ Len(ret.r.words) = Len(ret.r.states)
        /\ FromOneFetch(ret.r.words, ret.r.states, call.state_name, call.diff)

====
